---- MODULE Spec2Model ----
(***************************************************************************)
(* Model of the meeting-notes ingestion pipeline                           *)
(* (src/meeting_notes_ingester.py): MeetingNotesIngester.__init__,         *)
(* process_meeting_notes and store_in_neo4j, with the Cypher statements    *)
(* of store_in_neo4j executed against a property graph.                    *)
(*                                                                         *)
(* Every session.run is one auto-commit transaction: it is applied to the  *)
(* graph atomically or, when it fails, not at all.                         *)
(***************************************************************************)
EXTENDS Integers, Sequences, FiniteSets, TLC

\* ---------------------------------------------------------------- bounds
\* Largest number of entries (topics + action items + decisions +
\* attendees) one document yields.
MaxEntries == 2
\* Number of process_meeting_notes calls the sequential caller makes.
MaxCalls == 2

\* ---------------------------------------------------------------- values
\* Python None / Cypher null.
None == "null"

Workers == {1, 2}

Titles == {"Sprint 23 Review", "Sprint 24 Review"}
MeetingTypes == {"Sprint Review"}
\* datetime(year, month, day) as main() builds it from the file name.
Dates == {[year |-> 2025, month |-> 2, day |-> 1]}

\* What the extractors can put in the lists of one record.  The empty
\* string, the unresolved assignee and the unresolved email are included.
TopicInputs == {"", "database indexing"}
ItemInputs ==
    { [description |-> "implement the cache", assignee |-> "Alice",
       priority |-> "high", status |-> "pending"],
      [description |-> "implement the cache", assignee |-> None,
       priority |-> "medium", status |-> "pending"],
      [description |-> "", assignee |-> "Bob",
       priority |-> "medium", status |-> "pending"],
      [description |-> "prepare slides", assignee |-> "Bob",
       priority |-> None, status |-> None] }
DecisionInputs == {"", "ship on friday"}
AttendeeInputs ==
    { [name |-> "", email |-> None],
      [name |-> "Alice", email |-> None],
      [name |-> "Alice", email |-> "alice@example.com"],
      [name |-> "Alice", email |-> "al@corp.org"],
      [name |-> "Bob", email |-> "bob@example.com"],
      [name |-> "Bob", email |-> "bob@corp.org"] }

\* Sequences over S of length exactly n.
Tuples(S, n) == [1..n -> S]

\* The records of documents with a, b, c and d entries in the four lists.
DocsWith(a, b, c, d) ==
    [topics : Tuples(TopicInputs, a), action_items : Tuples(ItemInputs, b),
     decisions : Tuples(DecisionInputs, c), attendees : Tuples(AttendeeInputs, d)]

\* A document is identified with what the four extractors yield on it.
Docs ==
    UNION { DocsWith(n[1], n[2], n[3], n[4]) :
              n \in { m \in (0..MaxEntries) \X (0..MaxEntries) \X (0..MaxEntries)
                              \X (0..MaxEntries) :
                        m[1] + m[2] + m[3] + m[4] <= MaxEntries } }

\* Python truthiness of a str-or-None value.
Truthy(x) == x \notin {None, ""}

\* ---------------------------------------------------------------- graph
EmptyGraph ==
    [meetings |-> {}, topics |-> {}, persons |-> {}, items |-> {},
     decisions |-> {}, edges |-> {}, nextId |-> 1]

Ids(S) == {x.id : x \in S}

SetMin(S) == CHOOSE x \in S : \A y \in S : x <= y

\* meeting_date.isoformat(): the date with a midnight time part.
isoformat(d) == <<d.year, d.month, d.day, 0, 0, 0>>

\* Cypher datetime($date) applied to an ISO-8601 string.
datetime(iso) ==
    [year |-> iso[1], month |-> iso[2], day |-> iso[3],
     hour |-> iso[4], minute |-> iso[5], second |-> iso[6]]

\* Cypher COALESCE(x, default).
COALESCE(x, default) == IF x = None THEN default ELSE x

\* MatchMeeting without the title filter: MATCH (m:Meeting).
MatchMeetingAny(g, title) == {m.id : m \in g.meetings}

\* MATCH (m:Meeting {title: $title}): every Meeting node with that title.
MatchMeeting(g, title) == {m.id : m \in {x \in g.meetings : x.title = title}}

\* Before/After order on pairs of node ids, to create edges in a fixed order.
PairLeq(p, q) == p[1] < q[1] \/ (p[1] = q[1] /\ p[2] <= q[2])

\* CREATE (src)-[:kind]->(dst) for every row <<src, dst>>.
RECURSIVE CreateEdges(_, _, _)
CreateEdges(g, kind, rows) ==
    IF rows = {} THEN g
    ELSE LET r == CHOOSE x \in rows : \A y \in rows : PairLeq(x, y)
             e == [id |-> g.nextId, kind |-> kind, src |-> r[1], dst |-> r[2]]
         IN  CreateEdges([g EXCEPT !.edges = @ \cup {e}, !.nextId = @ + 1],
                         kind, rows \ {r})

\* MERGE (t:Topic {name: $topic}).
MergeTopic(g, topic) ==
    IF \E t \in g.topics : t.name = topic THEN g
    ELSE [g EXCEPT !.topics = @ \cup {[id |-> g.nextId, name |-> topic]},
                   !.nextId = @ + 1]

\* MergePerson as a CREATE: a new Person whether or not the name exists.
MergePersonCreate(g, name) ==
    [g EXCEPT !.persons = @ \cup {[id |-> g.nextId, name |-> name,
                                   email |-> None]},
              !.nextId = @ + 1]

\* MERGE (p:Person {name: $name}); a created Person has no email.
MergePerson(g, name) ==
    IF \E p \in g.persons : p.name = name THEN g
    ELSE [g EXCEPT !.persons = @ \cup {[id |-> g.nextId, name |-> name,
                                        email |-> None]},
                   !.nextId = @ + 1]

\* CREATE (m:Meeting {...}) RETURN m.
CreateMeeting(g, title, type, date) ==
    [g EXCEPT !.meetings = @ \cup {[id |-> g.nextId, title |-> title,
                                    type |-> type,
                                    timestamp |-> datetime(isoformat(date))]},
              !.nextId = @ + 1]

\* MATCH (m:Meeting {title}) MERGE (t:Topic {name}) CREATE (m)-[:DISCUSSES]->(t)
TopicStatement(g, title, topic) ==
    LET ms == MatchMeeting(g, title) IN
    IF ms = {} THEN g
    ELSE LET g1 == MergeTopic(g, topic)
             ts == {t.id : t \in {x \in g1.topics : x.name = topic}}
         IN  CreateEdges(g1, "DISCUSSES", ms \X ts)

\* CreateActionItems with one ActionItem shared by all matched Meeting rows
\* (a MERGE of the ActionItem on its description).
CreateActionItemsShared(g, ms, item) ==
    LET a == [id |-> g.nextId, description |-> item.description,
              status |-> COALESCE(item.status, "pending"),
              priority |-> COALESCE(item.priority, "medium")]
    IN  CreateEdges([g EXCEPT !.items = @ \cup {a}, !.nextId = @ + 1],
                    "HAS_ACTION_ITEM", ms \X {a.id})

\* CREATE (a:ActionItem {...}) CREATE (m)-[:HAS_ACTION_ITEM]->(a), once per
\* matched Meeting row.
RECURSIVE CreateActionItems(_, _, _)
CreateActionItems(g, ms, item) ==
    IF ms = {} THEN g
    ELSE LET m == SetMin(ms)
             a == [id |-> g.nextId, description |-> item.description,
                   status |-> COALESCE(item.status, "pending"),
                   priority |-> COALESCE(item.priority, "medium")]
             e == [id |-> g.nextId + 1, kind |-> "HAS_ACTION_ITEM",
                   src |-> m, dst |-> a.id]
         IN  CreateActionItems([g EXCEPT !.items = @ \cup {a},
                                         !.edges = @ \cup {e},
                                         !.nextId = @ + 2],
                               ms \ {m}, item)

\* The action-item statement of store_in_neo4j.
ActionItemStatement(g, title, item) ==
    LET ms == MatchMeeting(g, title) IN
    IF ms = {} THEN g
    ELSE LET g1 == CreateActionItems(g, ms, item)
             as == Ids(g1.items) \ Ids(g.items)
             g2 == MergePerson(g1, item.assignee)
             ps == {p.id : p \in {x \in g2.persons : x.name = item.assignee}}
         IN  CreateEdges(g2, "ASSIGNED_TO", as \X ps)

\* CREATE (d:Decision {content}) CREATE (m)-[:MADE_DECISION]->(d), once per
\* matched Meeting row.
RECURSIVE DecisionRows(_, _, _)
DecisionRows(g, ms, decision) ==
    IF ms = {} THEN g
    ELSE LET m == SetMin(ms)
             d == [id |-> g.nextId, content |-> decision]
             e == [id |-> g.nextId + 1, kind |-> "MADE_DECISION",
                   src |-> m, dst |-> d.id]
         IN  DecisionRows([g EXCEPT !.decisions = @ \cup {d},
                                    !.edges = @ \cup {e},
                                    !.nextId = @ + 2],
                          ms \ {m}, decision)

\* The decision statement of store_in_neo4j.
DecisionStatement(g, title, decision) ==
    DecisionRows(g, MatchMeeting(g, title), decision)

\* AttendeeStatement with the email set only on a Person that has none
\* (ON CREATE SET in place of SET).
AttendeeStatementKeepEmail(g, title, attendee) ==
    LET ms == MatchMeeting(g, title) IN
    IF ms = {} THEN g
    ELSE LET g1 == MergePerson(g, attendee.name) IN
         IF attendee.email = None THEN g1
         ELSE LET g2 == [g1 EXCEPT !.persons =
                            {IF p.name = attendee.name /\ p.email = None
                               THEN [p EXCEPT !.email = attendee.email]
                               ELSE p : p \in g1.persons}]
                  ps == {p.id : p \in {x \in g2.persons : x.name = attendee.name}}
              IN  CreateEdges(g2, "HAS_ATTENDEE", ms \X ps)

\* The attendee statement of store_in_neo4j: WITH ... WHERE email IS NOT NULL
\* drops every row when $email is null, so neither SET nor the trailing
\* CREATE runs; the MERGE before it has already run.
AttendeeStatement(g, title, attendee) ==
    LET ms == MatchMeeting(g, title) IN
    IF ms = {} THEN g
    ELSE LET g1 == MergePerson(g, attendee.name) IN
         IF attendee.email = None THEN g1
         ELSE LET g2 == [g1 EXCEPT !.persons =
                            {IF p.name = attendee.name
                               THEN [p EXCEPT !.email = attendee.email]
                               ELSE p : p \in g1.persons}]
                  ps == {p.id : p \in {x \in g2.persons : x.name = attendee.name}}
              IN  CreateEdges(g2, "HAS_ATTENDEE", ms \X ps)

\* ---------------------------------------------------------------- state
VARIABLES
    driver,        \* self.driver: "none" before __init__, then "ready" or "failed"
    graph,         \* the Neo4j database
    pc,            \* per caller: "idle", "extract", "store" or "run"
    call,          \* per caller: arguments of its process_meeting_notes call
    extracted,     \* per caller: topics, action_items, decisions, attendees
    pos,           \* per caller: the statement store_in_neo4j is about to run
    session,       \* per caller: the session bound by "with ... as session"
    openSessions,  \* sessions of the driver that are open
    sessionOwner,  \* for each session ever opened, the call that opened it
    outcome,       \* per caller: what its last call returned or raised
    calls,         \* number of process_meeting_notes calls started
    callId,        \* per caller: ordinal of its current (or last) call
    before,        \* per caller: the graph when its call started
    failedStage    \* per caller: the extraction stage that raised, if any

vars == <<driver, graph, pc, call, extracted, pos, session, openSessions,
          sessionOwner, outcome, calls, callId, before, failedStage>>

NoCall == [title |-> None, type |-> None, date |-> None, notes |-> None]
NoRecord == [topics |-> <<>>, action_items |-> <<>>, decisions |-> <<>>,
             attendees |-> <<>>]
NoOutcome == [kind |-> "none"]
NoSession == 0

\* The four extraction stages of process_meeting_notes, in call order, which
\* is also the order of the loops of store_in_neo4j.
Stages == <<"topics", "action_items", "decisions", "attendees">>
NStages == Len(Stages)

\* Positions in store_in_neo4j: phase 0 is the CREATE of the Meeting, phase k
\* in 1..NStages the loop over list k at entry idx, phase NStages + 1 the end
\* of the with block.
MeetingPos == [phase |-> 0, idx |-> 0]
EndPos == [phase |-> NStages + 1, idx |-> 0]

RECURSIVE FirstFrom(_, _)
FirstFrom(rec, k) ==
    IF k > NStages THEN EndPos
    ELSE IF Len(rec[Stages[k]]) > 0 THEN [phase |-> k, idx |-> 1]
    ELSE FirstFrom(rec, k + 1)

\* The position after p: the next entry of the same loop, or the first entry
\* of the next loop that has one.
Advance(rec, p) ==
    IF p.phase = 0 THEN FirstFrom(rec, 1)
    ELSE IF p.idx < Len(rec[Stages[p.phase]]) THEN [p EXCEPT !.idx = @ + 1]
    ELSE FirstFrom(rec, p.phase + 1)

Entry(rec, p) == rec[Stages[p.phase]][p.idx]

\* RunsStatement with "or" for "and" in the action-item check.
RunsStatementOr(rec, p) ==
    CASE p.phase = 0 -> TRUE
      [] p.phase = 1 -> Truthy(Entry(rec, p))
      [] p.phase = 2 -> Truthy(Entry(rec, p).description)
                        \/ Truthy(Entry(rec, p).assignee)
      [] p.phase = 3 -> Truthy(Entry(rec, p))
      [] p.phase = 4 -> Truthy(Entry(rec, p).name)
      [] OTHER -> FALSE

\* The "if" that guards the session.run of each loop body.
RunsStatement(rec, p) ==
    CASE p.phase = 0 -> TRUE
      [] p.phase = 1 -> Truthy(Entry(rec, p))
      [] p.phase = 2 -> Truthy(Entry(rec, p).description)
                        /\ Truthy(Entry(rec, p).assignee)
      [] p.phase = 3 -> Truthy(Entry(rec, p))
      [] p.phase = 4 -> Truthy(Entry(rec, p).name)
      [] OTHER -> FALSE

\* The effect of the session.run at position p.
Statement(g, c, rec, p) ==
    CASE p.phase = 0 -> CreateMeeting(g, c.title, c.type, c.date)
      [] p.phase = 1 -> TopicStatement(g, c.title, Entry(rec, p))
      [] p.phase = 2 -> ActionItemStatement(g, c.title, Entry(rec, p))
      [] p.phase = 3 -> DecisionStatement(g, c.title, Entry(rec, p))
      [] p.phase = 4 -> AttendeeStatement(g, c.title, Entry(rec, p))
      [] OTHER -> g

\* store_in_neo4j run to completion on g: the statements in program order.
RECURSIVE StoreFrom(_, _, _, _)
StoreFrom(g, c, rec, p) ==
    IF p = EndPos THEN g
    ELSE StoreFrom(IF RunsStatement(rec, p) THEN Statement(g, c, rec, p) ELSE g,
                   c, rec, Advance(rec, p))

Init ==
    /\ driver = "none"
    /\ graph = EmptyGraph
    /\ pc = [w \in Workers |-> "idle"]
    /\ call = [w \in Workers |-> NoCall]
    /\ extracted = [w \in Workers |-> NoRecord]
    /\ pos = [w \in Workers |-> EndPos]
    /\ session = [w \in Workers |-> NoSession]
    /\ openSessions = {}
    /\ sessionOwner = <<>>
    /\ outcome = [w \in Workers |-> NoOutcome]
    /\ calls = 0
    /\ callId = [w \in Workers |-> 0]
    /\ before = [w \in Workers |-> [graph |-> EmptyGraph, repeat |-> FALSE]]
    /\ failedStage = [w \in Workers |-> None]

\* __init__: GraphDatabase.driver(...) and verify_connectivity() succeed.
Connect ==
    /\ driver = "none"
    /\ driver' = "ready"
    /\ UNCHANGED <<graph, pc, call, extracted, pos, session, openSessions,
                   sessionOwner, outcome, calls, callId, before, failedStage>>

\* __init__: ServiceUnavailable is printed and re-raised as it is; no
\* ingester exists afterwards.
ConnectFail ==
    /\ driver = "none"
    /\ driver' = "failed"
    /\ outcome' = [w \in Workers |->
                     [kind |-> "raised",
                      exception |-> [type |-> "ServiceUnavailable",
                                     raised_by |-> "verify_connectivity"]]]
    /\ UNCHANGED <<graph, pc, call, extracted, pos, session, openSessions,
                   sessionOwner, calls, callId, before, failedStage>>

\* The caller enters process_meeting_notes(notes, title, type, date).
Enter(w, t, ty, d, n) ==
    /\ driver = "ready"
    /\ pc[w] = "idle"
    /\ pc' = [pc EXCEPT ![w] = "extract"]
    /\ call' = [call EXCEPT ![w] = [title |-> t, type |-> ty, date |-> d,
                                    notes |-> n]]
    /\ extracted' = [extracted EXCEPT ![w] = NoRecord]
    /\ outcome' = [outcome EXCEPT ![w] = NoOutcome]
    /\ calls' = calls + 1
    /\ callId' = [callId EXCEPT ![w] = calls + 1]
    /\ before' = [before EXCEPT ![w] =
                    [graph |-> graph,
                     repeat |-> /\ outcome[w].kind = "returned"
                                /\ call[w].title = t
                                /\ call[w].notes = n]]
    /\ failedStage' = [failedStage EXCEPT ![w] = None]
    /\ UNCHANGED <<driver, graph, pos, session, openSessions, sessionOwner>>

\* A call of the single-threaded caller (main's loop over the files).
Call(w) ==
    /\ calls < MaxCalls
    /\ \E t \in Titles, ty \in MeetingTypes, d \in Dates, n \in Docs :
          Enter(w, t, ty, d, n)

\* The four extract_* calls all return.
Extract(w) ==
    /\ pc[w] = "extract"
    /\ extracted' = [extracted EXCEPT ![w] = call[w].notes]
    /\ pc' = [pc EXCEPT ![w] = "store"]
    /\ UNCHANGED <<driver, graph, call, pos, session, openSessions,
                   sessionOwner, outcome, calls, callId, before, failedStage>>

\* ExtractFail with the exception swallowed: the call goes on to
\* store_in_neo4j with the lists extracted so far.
ExtractFailSwallowed(w) ==
    /\ pc[w] = "extract"
    /\ \E k \in 1..NStages :
          /\ extracted' = [extracted EXCEPT ![w] =
                             [s \in DOMAIN NoRecord |->
                                IF \E j \in 1..(k - 1) : Stages[j] = s
                                  THEN call[w].notes[s] ELSE <<>>]]
          /\ failedStage' = [failedStage EXCEPT ![w] = Stages[k]]
    /\ pc' = [pc EXCEPT ![w] = "store"]
    /\ UNCHANGED <<driver, graph, call, pos, session, openSessions,
                   sessionOwner, outcome, calls, callId, before>>

\* Extraction stage k raises (the NLP or keyphrase engine fails): nothing in
\* process_meeting_notes catches it, so the exception leaves the call as it
\* was raised and store_in_neo4j is not reached.
ExtractFail(w) ==
    /\ pc[w] = "extract"
    /\ \E k \in 1..NStages :
          /\ extracted' = [extracted EXCEPT ![w] =
                             [s \in DOMAIN NoRecord |->
                                IF \E j \in 1..(k - 1) : Stages[j] = s
                                  THEN call[w].notes[s] ELSE <<>>]]
          /\ failedStage' = [failedStage EXCEPT ![w] = Stages[k]]
          /\ outcome' = [outcome EXCEPT ![w] =
                           [kind |-> "raised",
                            exception |-> [type |-> "EngineError",
                                           raised_by |-> Stages[k]]]]
    /\ pc' = [pc EXCEPT ![w] = "idle"]
    /\ UNCHANGED <<driver, graph, call, pos, session, openSessions,
                   sessionOwner, calls, callId, before>>

\* store_in_neo4j: "with self.driver.session() as session" is entered.
OpenSession(w) ==
    /\ pc[w] = "store"
    /\ LET s == Len(sessionOwner) + 1 IN
          /\ session' = [session EXCEPT ![w] = s]
          /\ openSessions' = openSessions \cup {s}
          /\ sessionOwner' = Append(sessionOwner, callId[w])
    /\ pos' = [pos EXCEPT ![w] = MeetingPos]
    /\ pc' = [pc EXCEPT ![w] = "run"]
    /\ UNCHANGED <<driver, graph, call, extracted, outcome, calls, callId,
                   before, failedStage>>

\* One session.run of store_in_neo4j commits.
RunStatement(w) ==
    /\ pc[w] = "run"
    /\ pos[w] # EndPos
    /\ RunsStatement(extracted[w], pos[w])
    /\ session[w] \in openSessions
    /\ graph' = Statement(graph, call[w], extracted[w], pos[w])
    /\ pos' = [pos EXCEPT ![w] = Advance(extracted[w], pos[w])]
    /\ UNCHANGED <<driver, pc, call, extracted, session, openSessions,
                   sessionOwner, outcome, calls, callId, before, failedStage>>

\* A loop entry whose "if" is false: no statement is run for it.
SkipEntry(w) ==
    /\ pc[w] = "run"
    /\ pos[w] # EndPos
    /\ ~RunsStatement(extracted[w], pos[w])
    /\ pos' = [pos EXCEPT ![w] = Advance(extracted[w], pos[w])]
    /\ UNCHANGED <<driver, graph, pc, call, extracted, session, openSessions,
                   sessionOwner, outcome, calls, callId, before, failedStage>>

\* FailStatement with the session left open (a session opened without a with
\* block).
FailStatementLeak(w) ==
    /\ pc[w] = "run"
    /\ pos[w] # EndPos
    /\ RunsStatement(extracted[w], pos[w])
    /\ outcome' = [outcome EXCEPT ![w] =
                     [kind |-> "raised",
                      exception |-> [type |-> "Neo4jError",
                                     raised_by |-> "session.run"]]]
    /\ pc' = [pc EXCEPT ![w] = "idle"]
    /\ UNCHANGED <<driver, graph, call, extracted, pos, session, openSessions,
                   sessionOwner, calls, callId, before, failedStage>>

\* FailStatement with compensation: what the call had written is undone.
FailStatementRollback(w) ==
    /\ pc[w] = "run"
    /\ pos[w] # EndPos
    /\ RunsStatement(extracted[w], pos[w])
    /\ graph' = before[w].graph
    /\ openSessions' = openSessions \ {session[w]}
    /\ session' = [session EXCEPT ![w] = NoSession]
    /\ outcome' = [outcome EXCEPT ![w] =
                     [kind |-> "raised",
                      exception |-> [type |-> "Neo4jError",
                                     raised_by |-> "session.run"]]]
    /\ pc' = [pc EXCEPT ![w] = "idle"]
    /\ UNCHANGED <<driver, call, extracted, pos, sessionOwner, calls,
                   callId, before, failedStage>>

\* One session.run raises: its transaction is not committed, the with block
\* closes the session and the exception leaves process_meeting_notes as it
\* was raised.
FailStatement(w) ==
    /\ pc[w] = "run"
    /\ pos[w] # EndPos
    /\ RunsStatement(extracted[w], pos[w])
    /\ openSessions' = openSessions \ {session[w]}
    /\ session' = [session EXCEPT ![w] = NoSession]
    /\ outcome' = [outcome EXCEPT ![w] =
                     [kind |-> "raised",
                      exception |-> [type |-> "Neo4jError",
                                     raised_by |-> "session.run"]]]
    /\ pc' = [pc EXCEPT ![w] = "idle"]
    /\ UNCHANGED <<driver, graph, call, extracted, pos, sessionOwner, calls,
                   callId, before, failedStage>>

\* The with block ends, the session is closed, and process_meeting_notes
\* returns the record.
Return(w) ==
    /\ pc[w] = "run"
    /\ pos[w] = EndPos
    /\ openSessions' = openSessions \ {session[w]}
    /\ session' = [session EXCEPT ![w] = NoSession]
    /\ outcome' = [outcome EXCEPT ![w] =
                     [kind |-> "returned", record |-> extracted[w]]]
    /\ pc' = [pc EXCEPT ![w] = "idle"]
    /\ UNCHANGED <<driver, graph, call, extracted, pos, sessionOwner, calls,
                   callId, before, failedStage>>

\* The program as written: one caller, one call after the other.
Caller == 1

Next ==
    \/ Connect
    \/ ConnectFail
    \/ Call(Caller)
    \/ Extract(Caller)
    \/ ExtractFail(Caller)
    \/ OpenSession(Caller)
    \/ RunStatement(Caller)
    \/ SkipEntry(Caller)
    \/ FailStatement(Caller)
    \/ Return(Caller)

Spec == Init /\ [][Next]_vars

\* ------------------------------------------------- two concurrent callers
\* Two callers, each making one call on the same driver and database, with
\* distinct meeting titles; their steps interleave at statement granularity.
InitPar ==
    /\ driver = "ready"
    /\ graph = EmptyGraph
    /\ pc = [w \in Workers |-> "idle"]
    /\ call = [w \in Workers |-> NoCall]
    /\ extracted = [w \in Workers |-> NoRecord]
    /\ pos = [w \in Workers |-> EndPos]
    /\ session = [w \in Workers |-> NoSession]
    /\ openSessions = {}
    /\ sessionOwner = <<>>
    /\ outcome = [w \in Workers |-> NoOutcome]
    /\ calls = 0
    /\ callId = [w \in Workers |-> 0]
    /\ before = [w \in Workers |-> [graph |-> EmptyGraph, repeat |-> FALSE]]
    /\ failedStage = [w \in Workers |-> None]

\* Documents all of whose entries pass the "if" of their loop, so that every
\* entry is a statement that can interleave with the other caller's.
ParDocs ==
    {n \in Docs : \A k \in 1..NStages : \A i \in 1..Len(n[Stages[k]]) :
                     RunsStatement(n, [phase |-> k, idx |-> i])}

\* The two callers' titles: distinct, and fixed per caller since nothing in
\* the program tells one title from another.
ParTitle == [w \in Workers |-> IF w = 1 THEN "Sprint 23 Review"
                                        ELSE "Sprint 24 Review"]

\* Both calls are entered before either has written, the first caller's
\* first: entering and extracting touch no shared graph state, so every
\* interleaving of the statements is still reached.
CallPar(w) ==
    /\ callId[w] = 0
    /\ \A v \in Workers : v < w => callId[v] # 0
    /\ graph = EmptyGraph
    /\ \E ty \in MeetingTypes, d \in Dates, n \in ParDocs :
          Enter(w, ParTitle[w], ty, d, n)

\* Both calls run to completion: the failure steps are left to Spec.
NextPar ==
    \E w \in Workers :
        \/ CallPar(w)
        \/ Extract(w)
        \/ OpenSession(w)
        \/ RunStatement(w)
        \/ Return(w)

SpecPar == InitPar /\ [][NextPar]_vars

\* ================================================================ claims
\* Helpers of the claims, over the sequential caller of Spec.
Returned(w) == pc[w] = "idle" /\ outcome[w].kind = "returned"

\* Nodes and edges that did not exist when the caller's call started.
NewMeetings == Ids(graph.meetings) \ Ids(before[Caller].graph.meetings)
NewEdges == graph.edges \ before[Caller].graph.edges
NewItems == graph.items \ before[Caller].graph.items
NewDecisions == graph.decisions \ before[Caller].graph.decisions

ItemIsComplete(item) ==
    /\ item.description # "" /\ item.description # None
    /\ item.assignee # "" /\ item.assignee # None

CompleteItems(rec) ==
    {i \in 1..Len(rec.action_items) : ItemIsComplete(rec.action_items[i])}
NonEmptyDecisions(rec) ==
    {i \in 1..Len(rec.decisions) : rec.decisions[i] # ""}

WithTitle(g, t) == {m \in g.meetings : m.title = t}

\* C1: when the same document is ingested twice in a row under the same
\* title, the second call adds one more Meeting with that title (so there
\* are at least two), leaves the numbers of Topic and Person nodes as they
\* were after the first call, and makes the numbers of ActionItem and
\* Decision nodes strictly larger whenever the record has a persistable
\* action item and a non-empty decision.
C1_ReingestCounts ==
    (Returned(Caller) /\ before[Caller].repeat) =>
        LET b == before[Caller].graph
            t == call[Caller].title
            rec == outcome[Caller].record
        IN  /\ Cardinality(WithTitle(graph, t)) = Cardinality(WithTitle(b, t)) + 1
            /\ Cardinality(WithTitle(graph, t)) >= 2
            /\ Cardinality(graph.topics) = Cardinality(b.topics)
            /\ Cardinality(graph.persons) = Cardinality(b.persons)
            /\ (CompleteItems(rec) # {} /\ NonEmptyDecisions(rec) # {}) =>
                  /\ Cardinality(graph.items) > Cardinality(b.items)
                  /\ Cardinality(graph.decisions) > Cardinality(b.decisions)

C1_Witness ==
    /\ Returned(Caller) /\ before[Caller].repeat
    /\ CompleteItems(outcome[Caller].record) # {}
    /\ NonEmptyDecisions(outcome[Caller].record) # {}
    /\ graph.persons # {}
    /\ Cardinality(graph.items) > Cardinality(before[Caller].graph.items)

\* C2: after a successful call, every attendee of the input with a
\* non-empty name has a HAS_ATTENDEE edge from the call's Meeting to the
\* Person with that name, whether its email is resolved or none.
C2_EveryNamedAttendeeLinked ==
    Returned(Caller) =>
        \A i \in 1..Len(outcome[Caller].record.attendees) :
            LET a == outcome[Caller].record.attendees[i] IN
            a.name # "" =>
                \E e \in graph.edges, p \in graph.persons :
                    /\ e.kind = "HAS_ATTENDEE"
                    /\ e.src \in NewMeetings
                    /\ e.dst = p.id
                    /\ p.name = a.name

\* C3: every DISCUSSES edge created by a call starts at the Meeting created
\* by that call, and the call adds no edge to a Meeting of an earlier call.
C3_EdgesFromOwnMeeting ==
    \A e \in NewEdges :
        /\ e.kind = "DISCUSSES" => e.src \in NewMeetings
        /\ e.src \notin Ids(before[Caller].graph.meetings)

\* C4: one call creates exactly one new ActionItem per input item with a
\* non-empty description and a resolved assignee, and exactly one new
\* Decision per non-empty decision, whatever the graph held before.
C4_OneNodePerEntry ==
    Returned(Caller) =>
        /\ Cardinality(NewItems) = Cardinality(CompleteItems(outcome[Caller].record))
        /\ Cardinality(NewDecisions) =
              Cardinality(NonEmptyDecisions(outcome[Caller].record))

\* C5: an action item with an empty description or an unresolved assignee
\* is dropped silently: the step of store_in_neo4j that handles it changes
\* nothing in the graph, raises nothing, and leaves the call at the next
\* entry (the next item, or the first decision or attendee, or the end).
C5_IncompleteItemDropped ==
    [][ ( /\ pc[Caller] = "run"
          /\ pos[Caller].phase = 2
          /\ ~ItemIsComplete(extracted[Caller].action_items[pos[Caller].idx]) )
        => ( /\ graph' = graph
             /\ pc'[Caller] = "run"
             /\ outcome'[Caller].kind = "none"
             /\ session'[Caller] \in openSessions'
             /\ pos'[Caller] # pos[Caller]
             /\ \/ /\ pos[Caller].idx < Len(extracted[Caller].action_items)
                   /\ pos'[Caller] = [phase |-> 2, idx |-> pos[Caller].idx + 1]
                \/ /\ pos[Caller].idx = Len(extracted[Caller].action_items)
                   /\ pos'[Caller].phase > 2 ) ]_vars

\* A call that dropped its first item and persisted its second.
C5_Witness ==
    /\ Returned(Caller)
    /\ Len(outcome[Caller].record.action_items) = 2
    /\ ~ItemIsComplete(outcome[Caller].record.action_items[1])
    /\ ItemIsComplete(outcome[Caller].record.action_items[2])
    /\ Cardinality(NewItems) = 1

\* C6: in every reachable graph each ActionItem has exactly one incoming
\* HAS_ACTION_ITEM edge, coming from a Meeting, and at most one outgoing
\* ASSIGNED_TO edge, and each Decision has exactly one incoming
\* MADE_DECISION edge, coming from a Meeting.
C6_Ownership ==
    /\ \A a \in graph.items :
          /\ Cardinality({e \in graph.edges :
                            e.kind = "HAS_ACTION_ITEM" /\ e.dst = a.id}) = 1
          /\ \A e \in graph.edges :
                (e.kind = "HAS_ACTION_ITEM" /\ e.dst = a.id)
                    => e.src \in Ids(graph.meetings)
          /\ Cardinality({e \in graph.edges :
                            e.kind = "ASSIGNED_TO" /\ e.src = a.id}) <= 1
    /\ \A d \in graph.decisions :
          /\ Cardinality({e \in graph.edges :
                            e.kind = "MADE_DECISION" /\ e.dst = d.id}) = 1
          /\ \A e \in graph.edges :
                (e.kind = "MADE_DECISION" /\ e.dst = d.id)
                    => e.src \in Ids(graph.meetings)

\* A second call under the title of the first failed part-way, after it
\* had written action items and a decision next to those of the first.
C6_Witness ==
    /\ pc[Caller] = "idle"
    /\ outcome[Caller].kind = "raised"
    /\ Cardinality(WithTitle(graph, call[Caller].title)) = 2
    /\ Cardinality(graph.items) >= 3
    /\ before[Caller].graph.decisions # {}

\* C7: a call opens at most one session; when the call has ended, by
\* returning or by raising from an extraction stage or from any statement,
\* no session it opened is open; and the session a call runs its statements
\* on is one it opened itself, never one of an earlier call.
C7_SessionScopedToCall ==
    /\ \A c \in 1..calls :
          Cardinality({s \in 1..Len(sessionOwner) : sessionOwner[s] = c}) <= 1
    /\ \A w \in Workers :
          /\ pc[w] = "idle" =>
                /\ session[w] = NoSession
                /\ \A s \in openSessions : sessionOwner[s] # callId[w]
          /\ pc[w] = "run" =>
                /\ session[w] \in openSessions
                /\ sessionOwner[session[w]] = callId[w]
    /\ \A s \in openSessions :
          \E w \in Workers : pc[w] = "run" /\ session[w] = s

\* The second call has ended by a failed statement, after both calls had
\* opened a session.
C7_Witness ==
    /\ pc[Caller] = "idle"
    /\ outcome[Caller].kind = "raised"
    /\ outcome[Caller].exception.raised_by = "session.run"
    /\ Len(sessionOwner) = 2
    /\ callId[Caller] = 2

\* C8: when one of the four extraction stages fails, the call is over: the
\* error is the call's outcome, no record is returned, no session was
\* opened for it and the graph is what it was when the call started.
C8_ExtractionFailureAborts ==
    \A w \in Workers :
        failedStage[w] # None =>
            /\ pc[w] = "idle"
            /\ outcome[w].kind = "raised"
            /\ outcome[w].exception.raised_by = failedStage[w]
            /\ graph = before[w].graph
            /\ \A s \in 1..Len(sessionOwner) : sessionOwner[s] # callId[w]

\* The decisions stage of a call failed, on a document that has topics
\* and on a graph that an earlier call has filled.
C8_Witness ==
    /\ failedStage[Caller] = "decisions"
    /\ call[Caller].notes.topics # <<>>
    /\ graph.meetings # {}

\* C9: every failure of an ingestion call, from an extraction stage or from
\* a store statement, reaches the caller with the title of the document
\* attached to the error.
C9_FailureCarriesTitle ==
    \A w \in Workers :
        (driver = "ready" /\ outcome[w].kind = "raised") =>
            /\ "title" \in DOMAIN outcome[w].exception
            /\ outcome[w].exception.title = call[w].title

\* ------------------------------------------------------------------ C10
\* The bag of F(x) over the elements x of S.
BagOver(S, F(_)) ==
    [v \in {F(x) : x \in S} |-> Cardinality({x \in S : F(x) = v})]

OutEdges(g, kind, src) == {e \in g.edges : e.kind = kind /\ e.src = src}

NodeOf(S, id) == CHOOSE x \in S : x.id = id

\* A graph up to the identities of its nodes and edges: each Meeting with
\* what it is linked to, and the Topic and Person nodes.  Email(p) is what
\* is kept of a Person's email.
ViewOf(g, Email(_)) ==
    LET TopicName(e) == NodeOf(g.topics, e.dst).name
        PersonName(e) == NodeOf(g.persons, e.dst).name
        Content(e) == NodeOf(g.decisions, e.dst).content
        ItemView(e) ==
            LET a == NodeOf(g.items, e.dst) IN
            [description |-> a.description, status |-> a.status,
             priority |-> a.priority,
             assignees |-> BagOver(OutEdges(g, "ASSIGNED_TO", a.id), PersonName)]
        MeetingView(m) ==
            [title |-> m.title, type |-> m.type, timestamp |-> m.timestamp,
             topics |-> BagOver(OutEdges(g, "DISCUSSES", m.id), TopicName),
             items |-> BagOver(OutEdges(g, "HAS_ACTION_ITEM", m.id), ItemView),
             decisions |-> BagOver(OutEdges(g, "MADE_DECISION", m.id), Content),
             attendees |-> BagOver(OutEdges(g, "HAS_ATTENDEE", m.id), PersonName)]
        TopicView(t) == t.name
        PersonView(q) == [name |-> q.name, email |-> Email(q)]
    IN  [meetings |-> BagOver(g.meetings, MeetingView),
         topics |-> BagOver(g.topics, TopicView),
         persons |-> BagOver(g.persons, PersonView),
         items |-> Cardinality(g.items),
         decisions |-> Cardinality(g.decisions),
         edges |-> Cardinality(g.edges)]

EmailOf(q) == q.email
NoEmail(q) == None

\* The graph with everything in it, and the graph without the emails.
FullView(g) == ViewOf(g, EmailOf)
Shape(g) == ViewOf(g, NoEmail)

BothReturned == \A w \in Workers : Returned(w)

\* The graph of running the call of v to its end and then the call of w.
OneAfterTheOther(v, w) ==
    StoreFrom(StoreFrom(EmptyGraph, call[v], extracted[v], MeetingPos),
              call[w], extracted[w], MeetingPos)

EmailsIn(g, name) == {q.email : q \in {x \in g.persons : x.name = name}}

\* The entries of the record of caller w, by kind.
TopicsOf(w) == {extracted[w].topics[i] : i \in 1..Len(extracted[w].topics)}
DescriptionsOf(w) ==
    {extracted[w].action_items[i].description :
        i \in 1..Len(extracted[w].action_items)}
DecisionsOf(w) ==
    {extracted[w].decisions[i] : i \in 1..Len(extracted[w].decisions)}
AttendeeNamesOf(w) ==
    {extracted[w].attendees[i].name : i \in 1..Len(extracted[w].attendees)}

\* Every edge out of the Meeting of caller w leads to something of w's record.
LinkedOnlyToOwn(w) ==
    \A m \in WithTitle(graph, call[w].title) :
        \A e \in {x \in graph.edges : x.src = m.id} :
            CASE e.kind = "DISCUSSES" ->
                    NodeOf(graph.topics, e.dst).name \in TopicsOf(w)
              [] e.kind = "HAS_ACTION_ITEM" ->
                    NodeOf(graph.items, e.dst).description \in DescriptionsOf(w)
              [] e.kind = "MADE_DECISION" ->
                    NodeOf(graph.decisions, e.dst).content \in DecisionsOf(w)
              [] e.kind = "HAS_ATTENDEE" ->
                    NodeOf(graph.persons, e.dst).name \in AttendeeNamesOf(w)
              [] OTHER -> FALSE

OneNodePerName ==
    /\ \A t1, t2 \in graph.topics : t1.name = t2.name => t1 = t2
    /\ \A p1, p2 \in graph.persons : p1.name = p2.name => p1 = p2

\* C10 as stated: when two calls with distinct titles have run with their
\* statements interleaved, the graph, emails included, is the graph of
\* running one call after the other, in one of the two orders.
C10_EqualsOneAfterTheOther ==
    BothReturned =>
        LET v == FullView(graph) IN
        \/ v = FullView(OneAfterTheOther(1, 2))
        \/ v = FullView(OneAfterTheOther(2, 1))

\* C10 as amended: the interleaved run yields the nodes and edges of
\* running one call after the other (in either order); each Meeting is
\* linked only to entries of its own record, each Topic name and Person
\* name has one node, and each Person's email is the one that Person has
\* after one of the two sequential orders, not necessarily the same order
\* for every Person.
C10_ShapeOfOneAfterTheOther ==
    BothReturned =>
        LET g12 == OneAfterTheOther(1, 2)
            g21 == OneAfterTheOther(2, 1)
            sh == Shape(graph)
        IN  /\ sh = Shape(g12)
            /\ sh = Shape(g21)
            /\ \A w \in Workers :
                  /\ Cardinality(WithTitle(graph, call[w].title)) = 1
                  /\ LinkedOnlyToOwn(w)
            /\ OneNodePerName
            /\ \A q \in graph.persons :
                  q.email \in EmailsIn(g12, q.name) \cup EmailsIn(g21, q.name)

\* Both calls have returned, they name the same topic and the same
\* attendee, and the attendee's email differs between the two documents.
C10_Witness ==
    /\ BothReturned
    /\ \E i \in 1..Len(extracted[1].attendees),
          j \in 1..Len(extracted[2].attendees) :
          /\ extracted[1].attendees[i].name = extracted[2].attendees[j].name
          /\ extracted[1].attendees[i].email # None
          /\ extracted[2].attendees[j].email # None
          /\ extracted[1].attendees[i].email # extracted[2].attendees[j].email
    /\ TopicsOf(1) \cap TopicsOf(2) # {}
    /\ Cardinality(graph.meetings) = 2

\* ============================================================ extraction
\* Text is a TLA+ string; the regular expressions of the extractors are
\* written out as scans over its characters.

\* s[i] as a one-character string, "" outside the string.
At(s, i) == IF i >= 1 /\ i <= Len(s) THEN SubSeq(s, i, i) ELSE ""

\* s[i:j] of Python with 1-based i and exclusive j.
Slice(s, i, j) == IF j <= i THEN "" ELSE SubSeq(s, i, j - 1)

Chars(s) == {SubSeq(s, k, k) : k \in 1..Len(s)}

UpperLetters == "ABCDEFGHIJKLMNOPQRSTUVWXYZ"
LowerLetters == "abcdefghijklmnopqrstuvwxyz"
Digits == "0123456789"

Letter == Chars(UpperLetters) \cup Chars(LowerLetters)
\* \w
WordChar == Letter \cup Chars(Digits) \cup {"_"}
\* \s
Space == {" ", "\n", "\t"}
\* [a-zA-Z0-9._%+-] and [a-zA-Z0-9.-] of the email pattern.
EmailLocalChar == Letter \cup Chars(Digits) \cup Chars("._%+-")
EmailDomainChar == Letter \cup Chars(Digits) \cup Chars(".-")

ToLower ==
    [c \in Chars(UpperLetters) |->
        At(LowerLetters, CHOOSE k \in 1..Len(UpperLetters) : At(UpperLetters, k) = c)]

\* str.lower(); also what re.IGNORECASE compares.
RECURSIVE lower(_)
lower(s) ==
    IF Len(s) = 0 THEN ""
    ELSE IF Len(s) = 1 THEN (IF s \in DOMAIN ToLower THEN ToLower[s] ELSE s)
    ELSE lower(SubSeq(s, 1, Len(s) \div 2))
         \o lower(SubSeq(s, Len(s) \div 2 + 1, Len(s)))

\* The first index from j on that is past the end of s or whose character
\* is in stop.
Until(s, j, stop) ==
    CHOOSE k \in j..(IF j > Len(s) THEN j ELSE Len(s) + 1) :
        /\ k > Len(s) \/ At(s, k) \in stop
        /\ \A m \in j..(k - 1) : At(s, m) \notin stop

\* The end of a greedy run of the characters of a class that starts at j:
\* the first index from j on whose character is not in the class.
RunEnd(s, j, class) ==
    CHOOSE k \in j..(IF j > Len(s) THEN j ELSE Len(s) + 1) :
        /\ At(s, k) \notin class
        /\ \A m \in j..(k - 1) : At(s, m) \in class

\* The end of what ".*" matches from j: up to the next line break.
LineEnd(s, j) == Until(s, j, {"\n"})

\* str.strip().
RECURSIVE lstrip(_)
lstrip(s) == IF s # "" /\ Head(s) \in Space THEN lstrip(Tail(s)) ELSE s
RECURSIVE rstrip(_)
rstrip(s) ==
    IF s # "" /\ At(s, Len(s)) \in Space THEN rstrip(Slice(s, 1, Len(s))) ELSE s
strip(s) == rstrip(lstrip(s))

\* The literal kw matches at i of the (case-folded) text l.
LiteralAt(l, i, kw) ==
    /\ i >= 1
    /\ i + Len(kw) - 1 <= Len(l)
    /\ SubSeq(l, i, i + Len(kw) - 1) = kw

\* "indicator in sentence_lower".
Contains(l, kw) == \E i \in 1..Len(l) : LiteralAt(l, i, kw)

\* An optional character.
Optional(s, j, c) == IF At(s, j) = c THEN j + 1 ELSE j

\* A match: where it starts, group(1) as [from, to), where it ends; NoMatch
\* when the pattern does not match there.
NoMatch == [start |-> 0, from |-> 0, to |-> 0, end |-> 0]

\* The common tail of the anchor patterns from j: an optional colon, any
\* white space, and the rest of the line as group(1).
RestOfLine(s, i, j) ==
    LET f == RunEnd(s, Optional(s, j, ":"), Space)
        e == LineEnd(s, f)
    IN  [start |-> i, from |-> f, to |-> e, end |-> e]

\* The first of the literals kws, in order, that matches at i, or "".
RECURSIVE FirstLiteral(_, _, _)
FirstLiteral(l, i, kws) ==
    IF kws = <<>> THEN ""
    ELSE IF LiteralAt(l, i, Head(kws)) THEN Head(kws)
    ELSE FirstLiteral(l, i, Tail(kws))

\* self.action_patterns, self.decision_patterns and self.attendee_patterns,
\* each pattern under the name of its anchor.
action_patterns == <<"action", "todo", "assigned", "verb">>
decision_patterns == <<"decision", "decided", "agreed", "conclusion", "resolved">>
attendee_patterns == <<"attendee", "participant", "present">>

Modals == <<"will", "shall", "to">>
Verbs == <<"handle", "do", "implement", "create", "setup", "prepare">>
AssignedAnchors == <<"assigned:", "assigned to:", "responsible:">>

\* The pattern p tried at position i of s, with l = lower(s).
MatchAt(p, s, l, i) ==
    CASE p = "action" ->
            \* action, an optional " item", an optional s, then the tail
            IF ~LiteralAt(l, i, "action") THEN NoMatch
            ELSE LET j == i + Len("action")
                     k == RunEnd(s, j, Space)
                     j1 == IF k > j /\ LiteralAt(l, k, "item")
                             THEN k + Len("item") ELSE j
                 IN  RestOfLine(s, i, Optional(l, j1, "s"))
      [] p \in {"attendee", "participant"} ->
            IF ~LiteralAt(l, i, p) THEN NoMatch
            ELSE RestOfLine(s, i, Optional(l, i + Len(p), "s"))
      [] p = "assigned" ->
            \* (assigned | assigned to | responsible) and a colon
            LET a == FirstLiteral(l, i, AssignedAnchors) IN
            IF a = "" THEN NoMatch
            ELSE LET f == RunEnd(s, i + Len(a), Space)
                     e == LineEnd(s, f)
                 IN  [start |-> i, from |-> f, to |-> e, end |-> e]
      [] p = "verb" ->
            \* (word) space (will|shall|to) space (handle|do|...) (rest):
            \* group(1) is the word before the modal.
            IF At(s, i) \notin WordChar THEN NoMatch
            ELSE LET w == RunEnd(s, i, WordChar)
                     m == RunEnd(s, w, Space)
                     modal == FirstLiteral(l, m, Modals)
                     n == m + Len(modal)
                     v == RunEnd(s, n, Space)
                     verb == FirstLiteral(l, v, Verbs)
                 IN  IF m > w /\ modal # "" /\ v > n /\ verb # ""
                       THEN [start |-> i, from |-> i, to |-> w,
                             end |-> LineEnd(s, v + Len(verb))]
                       ELSE NoMatch
      [] OTHER ->
            \* the anchor word itself, then the tail
            IF ~LiteralAt(l, i, p) THEN NoMatch
            ELSE RestOfLine(s, i, i + Len(p))

\* re.finditer(pattern, s, re.IGNORECASE) from position i on, starts being
\* the positions where the pattern matches: the leftmost match, then the
\* matches after its end; their group(1), in order.
RECURSIVE finditer(_, _, _, _, _)
finditer(p, s, l, starts, i) ==
    IF \A k \in starts : k < i THEN <<>>
    ELSE LET k == SetMin({x \in starts : x >= i})
             m == MatchAt(p, s, l, k)
         IN  <<Slice(s, m.from, m.to)>>
             \o finditer(p, s, l, starts, IF m.end > k THEN m.end ELSE k + 1)

Groups(p, s) ==
    LET l == lower(s) IN
    finditer(p, s, l, {i \in 1..Len(s) : MatchAt(p, s, l, i) # NoMatch}, 1)

\* priority_indicators, in the order the dictionary is written.
priority_indicators ==
    << [priority |-> "high",
        indicators |-> <<"urgent", "critical", "important", "asap", "high priority">>],
       [priority |-> "medium",
        indicators |-> <<"medium", "moderate", "normal">>],
       [priority |-> "low",
        indicators |-> <<"low", "minor", "when possible", "if time permits">>] >>

\* The mutant of FirstPriority: the levels are read from the last to the
\* first.
RECURSIVE FirstPriorityReversed(_, _)
FirstPriorityReversed(table, l) ==
    IF table = <<>> THEN "medium"
    ELSE LET last == table[Len(table)] IN
         IF \E k \in 1..Len(last.indicators) : Contains(l, last.indicators[k])
           THEN last.priority
           ELSE FirstPriorityReversed(SubSeq(table, 1, Len(table) - 1), l)

\* The loop of _determine_priority over the levels: the first level one of
\* whose indicators occurs in the lowered sentence, "medium" when none does.
RECURSIVE FirstPriority(_, _)
FirstPriority(table, l) ==
    IF table = <<>> THEN "medium"
    ELSE IF \E k \in 1..Len(Head(table).indicators) :
                Contains(l, Head(table).indicators[k])
           THEN Head(table).priority
           ELSE FirstPriority(Tail(table), l)

determine_priority(sentence) == FirstPriority(priority_indicators, lower(sentence))

\* The entities of one label, in the order the recogniser gives them.
RECURSIVE EntsOf(_, _)
EntsOf(ents, label) ==
    IF ents = <<>> THEN <<>>
    ELSE (IF Head(ents).label = label THEN <<Head(ents).text>> ELSE <<>>)
         \o EntsOf(Tail(ents), label)

\* "assigned to", an optional colon, white space and a word, tried at i: the
\* word, None when the pattern does not match there.
AssignedToAt(s, l, i) ==
    LET f == RunEnd(s, Optional(s, i + Len("assigned to"), ":"), Space)
        e == RunEnd(s, f, WordChar)
    IN  IF LiteralAt(l, i, "assigned to") /\ e > f THEN Slice(s, f, e) ELSE None

\* re.search of that pattern: the word of the leftmost match, None without
\* one.
AssignedTo(s, l) ==
    LET hits == {i \in 1..Len(s) : AssignedToAt(s, l, i) # None} IN
    IF hits = {} THEN None ELSE AssignedToAt(s, l, SetMin(hits))

\* The mutant of extract_assignee: the "assigned to" phrase is read before
\* the recognised persons.
extract_assignee_phrase_first(sentence, ents) ==
    LET a == AssignedTo(sentence, lower(sentence)) IN
    IF a # None THEN a
    ELSE IF EntsOf(ents, "PERSON") # <<>> THEN Head(EntsOf(ents, "PERSON"))
    ELSE None

\* _extract_assignee: ents is what self.nlp(sentence).ents holds.
extract_assignee(sentence, ents) ==
    IF EntsOf(ents, "PERSON") # <<>> THEN Head(EntsOf(ents, "PERSON"))
    ELSE AssignedTo(sentence, lower(sentence))

\* The e-mail pattern tried at j: the index after the address, 0 when it does
\* not match there. The local part runs up to the "@"; the domain is taken
\* as long as a dot and two letters can still follow it.
EmailEndAt(s, j) ==
    LET k == RunEnd(s, j, EmailLocalChar)
        r == RunEnd(s, k + 1, EmailDomainChar)
        dots == {p \in (k + 2)..(r - 1) :
                    At(s, p) = "." /\ RunEnd(s, p + 1, Letter) >= p + 3}
    IN  IF k = j \/ At(s, k) # "@" \/ dots = {} THEN 0
        ELSE RunEnd(s, (CHOOSE p \in dots : \A q \in dots : q <= p) + 1, Letter)

\* The mutant of LazyEmail: the gap runs over line breaks too.
LazyEmailAnyLine(s, j) ==
    LET hits == {k \in j..Len(s) : EmailEndAt(s, k) # 0} IN
    IF hits = {} THEN None
    ELSE Slice(s, SetMin(hits), EmailEndAt(s, SetMin(hits)))

\* The lazy gap before the address: the first position from j on, on this
\* line, where the e-mail pattern matches. "." does not match a line break,
\* so the gap ends with the line.
LazyEmail(s, j) ==
    LET hits == {k \in j..(LineEnd(s, j) - 1) : EmailEndAt(s, k) # 0} IN
    IF hits = {} THEN None
    ELSE Slice(s, SetMin(hits), EmailEndAt(s, SetMin(hits)))

\* re.search of the token, the gap and the address: the address of the
\* leftmost match.
SearchEmail(tok, s, l) ==
    LET hits == {i \in 1..Len(s) :
                    LiteralAt(l, i, tok) /\ LazyEmail(s, i + Len(tok)) # None}
    IN  IF hits = {} THEN None ELSE LazyEmail(s, SetMin(hits) + Len(tok))

\* The end of the token that starts at j.
TokenEnd(s, j) == Until(s, j, Space)

\* name.split()[0], "" when name.split() is empty.
FirstToken(name) == Slice(lstrip(name), 1, TokenEnd(lstrip(name), 1))

\* _extract_email
extract_email(name, text) ==
    IF FirstToken(name) = "" THEN None
    ELSE SearchEmail(lower(FirstToken(name)), text, lower(text))

\* The length of the delimiter of re.split at i: a comma, a semicolon, or
\* "and" between two white-space characters; 0 when there is none.
DelimiterAt(s, i) ==
    IF At(s, i) \in {",", ";"} THEN 1
    ELSE IF At(s, i) \in Space /\ LiteralAt(s, i + 1, "and") /\ At(s, i + 4) \in Space
           THEN 5
    ELSE 0

\* re.split: the pieces from b on.
RECURSIVE split(_, _)
split(s, b) ==
    LET cuts == {i \in b..Len(s) : DelimiterAt(s, i) > 0} IN
    IF cuts = {} THEN <<Slice(s, b, Len(s) + 1)>>
    ELSE <<Slice(s, b, SetMin(cuts))>>
         \o split(s, SetMin(cuts) + DelimiterAt(s, SetMin(cuts)))

\* ------------------------------------------------------------ the notes
\* The notes as the extractors see them: the sentences the parser cuts them
\* into, each with the white space that follows it in the text and the
\* entities the recogniser finds in it. Parser and recogniser are outside
\* the program; what they return is part of the input.
RECURSIVE TextOf(_)
TextOf(sents) ==
    IF sents = <<>> THEN ""
    ELSE Head(sents).text \o Head(sents).sep \o TextOf(Tail(sents))

\* doc.ents
RECURSIVE DocEnts(_)
DocEnts(sents) ==
    IF sents = <<>> THEN <<>> ELSE Head(sents).ents \o DocEnts(Tail(sents))

\* The mutant of ItemsOfGroups: assignee and priority are read from the
\* captured text, not from the sentence.
RECURSIVE ItemsOfGroupsFromCapture(_, _)
ItemsOfGroupsFromCapture(groups, sent) ==
    IF groups = <<>> THEN <<>>
    ELSE (IF strip(Head(groups)) # ""
            THEN << [description |-> strip(Head(groups)),
                     assignee |-> extract_assignee(strip(Head(groups)), <<>>),
                     priority |-> determine_priority(strip(Head(groups))),
                     status |-> "pending"] >>
            ELSE <<>>)
         \o ItemsOfGroupsFromCapture(Tail(groups), sent)

\* The items one pattern yields in one sentence.
RECURSIVE ItemsOfGroups(_, _)
ItemsOfGroups(groups, sent) ==
    IF groups = <<>> THEN <<>>
    ELSE (IF strip(Head(groups)) # ""
            THEN << [description |-> strip(Head(groups)),
                     assignee |-> extract_assignee(strip(sent.text), sent.ents),
                     priority |-> determine_priority(strip(sent.text)),
                     status |-> "pending"] >>
            ELSE <<>>)
         \o ItemsOfGroups(Tail(groups), sent)


\* The items of the patterns from the k-th on in one sentence.
RECURSIVE ItemsOfSentence(_, _)
ItemsOfSentence(sent, k) ==
    IF k > Len(action_patterns) THEN <<>>
    ELSE ItemsOfGroups(Groups(action_patterns[k], strip(sent.text)), sent)
         \o ItemsOfSentence(sent, k + 1)

\* extract_action_items
RECURSIVE extract_action_items(_)
extract_action_items(sents) ==
    IF sents = <<>> THEN <<>>
    ELSE ItemsOfSentence(Head(sents), 1) \o extract_action_items(Tail(sents))

\* The captured texts that are not empty once stripped, stripped.
RECURSIVE Stripped(_)
Stripped(groups) ==
    IF groups = <<>> THEN <<>>
    ELSE (IF strip(Head(groups)) # "" THEN <<strip(Head(groups))>> ELSE <<>>)
         \o Stripped(Tail(groups))

RECURSIVE DecisionsOfSentence(_, _)
DecisionsOfSentence(sent, k) ==
    IF k > Len(decision_patterns) THEN <<>>
    ELSE Stripped(Groups(decision_patterns[k], strip(sent.text)))
         \o DecisionsOfSentence(sent, k + 1)

\* The mutant of extract_decisions: a sentence that gave an action item is
\* not read for decisions.
RECURSIVE extract_decisions_exclusive(_)
extract_decisions_exclusive(sents) ==
    IF sents = <<>> THEN <<>>
    ELSE (IF ItemsOfSentence(Head(sents), 1) # <<>> THEN <<>>
          ELSE DecisionsOfSentence(Head(sents), 1))
         \o extract_decisions_exclusive(Tail(sents))

\* extract_decisions
RECURSIVE extract_decisions(_)
extract_decisions(sents) ==
    IF sents = <<>> THEN <<>>
    ELSE DecisionsOfSentence(Head(sents), 1) \o extract_decisions(Tail(sents))

\* The attendees of the names of one captured list.
RECURSIVE AttendeesOfNames(_, _)
AttendeesOfNames(names, text) ==
    IF names = <<>> THEN <<>>
    ELSE (IF strip(Head(names)) # ""
            THEN << [name |-> strip(Head(names)),
                     email |-> extract_email(strip(Head(names)), text)] >>
            ELSE <<>>)
         \o AttendeesOfNames(Tail(names), text)

RECURSIVE AttendeesOfGroups(_, _)
AttendeesOfGroups(groups, text) ==
    IF groups = <<>> THEN <<>>
    ELSE (IF Head(groups) # ""
            THEN AttendeesOfNames(split(Head(groups), 1), text)
            ELSE <<>>)
         \o AttendeesOfGroups(Tail(groups), text)

\* The attendees the patterns from the k-th on find in the whole text.
RECURSIVE AttendeesOfPatterns(_, _)
AttendeesOfPatterns(text, k) ==
    IF k > Len(attendee_patterns) THEN <<>>
    ELSE AttendeesOfGroups(Groups(attendee_patterns[k], text), text)
         \o AttendeesOfPatterns(text, k + 1)

\* The fallback: one attendee for each recognised person.
RECURSIVE AttendeesOfPersons(_, _)
AttendeesOfPersons(persons, text) ==
    IF persons = <<>> THEN <<>>
    ELSE << [name |-> Head(persons), email |-> extract_email(Head(persons), text)] >>
         \o AttendeesOfPersons(Tail(persons), text)

\* extract_attendees
extract_attendees(sents) ==
    LET text == TextOf(sents)
        attendees == AttendeesOfPatterns(text, 1)
    IN  IF attendees = <<>>
          THEN AttendeesOfPersons(EntsOf(DocEnts(sents), "PERSON"), text)
          ELSE attendees

\* ------------------------------------------------------------ topics
\* The keyphrase engine is a library the program calls: its candidates and
\* its cut to top_n are written from its description, and its ranking, which
\* depends on embeddings, is an input (one of Rankings).
nr_candidates == 20

\* The mutant of top_n: the size of the candidate pool is passed as the
\* number of phrases asked for.
top_n_pool == nr_candidates

top_n == 5

\* Words the stop-word filter drops (the ones of the list that occur in
\* Sentences).
StopWords ==
    {"the", "is", "and", "also", "we", "to", "it", "at", "for", "with", "up",
     "this", "will", "next", "ask"}

\* The words of the text from i on: runs of two or more word characters,
\* lowered.
RECURSIVE Words(_, _)
Words(s, i) ==
    LET b == Until(s, i, WordChar)
        e == RunEnd(s, b, WordChar)
    IN  IF b > Len(s) THEN <<>>
        ELSE (IF e - b >= 2 THEN <<lower(Slice(s, b, e))>> ELSE <<>>)
             \o Words(s, e)

RECURSIVE WithoutStopWords(_)
WithoutStopWords(ws) ==
    IF ws = <<>> THEN <<>>
    ELSE (IF Head(ws) \in StopWords THEN <<>> ELSE <<Head(ws)>>)
         \o WithoutStopWords(Tail(ws))

\* keyphrase_ngram_range=(1, 2): the words, then the pairs of neighbours.
Ngrams(ws) ==
    ws \o [k \in 1..(IF Len(ws) = 0 THEN 0 ELSE Len(ws) - 1) |->
              ws[k] \o " " \o ws[k + 1]]

\* A sequence without its repetitions, in the order of first occurrence.
RECURSIVE Distinct(_, _)
Distinct(q, seen) ==
    IF q = <<>> THEN <<>>
    ELSE (IF Head(q) \in seen THEN <<>> ELSE <<Head(q)>>)
         \o Distinct(Tail(q), seen \cup {Head(q)})

Candidates(text) == Distinct(Ngrams(WithoutStopWords(Words(text, 1))), {})

Take(q, n) == SubSeq(q, 1, IF Len(q) < n THEN Len(q) ELSE n)

Reverse(q) == [k \in 1..Len(q) |-> q[Len(q) + 1 - k]]

Rankings == {"generation", "reverse", "strict"}

\* keyword_model.extract_keywords(text, ..., nr_candidates, top_n): at most n
\* of the candidates, each with a score (here its rank); with fewer than n
\* candidates the engine gives what there is or, when strict, nothing.
extract_keywords(text, pool, n, ranking) ==
    LET ranked == IF ranking = "reverse" THEN Reverse(Candidates(text))
                  ELSE Candidates(text)
        best == IF ranking = "strict" /\ Len(ranked) < n THEN <<>>
                ELSE Take(Take(ranked, pool), n)
    IN  [k \in 1..Len(best) |-> <<best[k], k>>]

\* extract_topics: the phrases of the engine's answer, its scores dropped.
extract_topics(text, ranking) ==
    LET keywords == extract_keywords(text, nr_candidates, top_n, ranking) IN
    [k \in 1..Len(keywords) |-> keywords[k][1]]

\* ------------------------------------------------------------ documents
MaxSents == 2

Sentence(t, e, sp) == [text |-> t, ents |-> e, sep |-> sp]
Person(n) == [text |-> n, label |-> "PERSON"]

Sentences ==
    { Sentence("Bob will implement the cache", <<Person("Bob")>>, " "),
      Sentence("This is urgent and also minor", <<>>, " "),
      Sentence("Action: we decided: ship Friday",
               <<[text |-> "Friday", label |-> "DATE"]>>, "\n"),
      Sentence("TODO: update docs, assigned to: Carol", <<>>, "\n"),
      Sentence("Alice said it is assigned to: Dave",
               <<Person("Alice"), Person("Dave")>>, "\n"),
      Sentence("Attendees: Alice, Bob and Carol",
               <<Person("Alice"), Person("Bob"), Person("Carol")>>, "\n"),
      Sentence("Alice will present the demo", <<Person("Alice")>>, " "),
      Sentence("Contact Alice at alice@example.com for details",
               <<Person("Alice")>>, " "),
      Sentence("Decision:", <<>>, " "),
      Sentence("TODO: follow up with the vendor", <<>>, " "),
      Sentence("Action items:", <<>>, "\n"),
      Sentence("Attendees: Carol", <<Person("Carol")>>, "\n"),
      Sentence("Write to carol@example.com", <<>>, " "),
      Sentence("Agreed: Dave to prepare the normal report asap",
               <<Person("Dave")>>, " ") }

TextDocs == UNION {Tuples(Sentences, n) : n \in 1..MaxSents}

\* process_meeting_notes is called once, on notes given as text.
CallText(w) ==
    /\ callId[w] = 0
    /\ \E t \in {"Sprint 23 Review"}, ty \in MeetingTypes, d \in Dates, n \in TextDocs :
          Enter(w, t, ty, d, n)

\* The four extractors on the text of the notes.
ExtractText(w) ==
    /\ pc[w] = "extract"
    /\ \E ranking \in Rankings :
          extracted' = [extracted EXCEPT ![w] =
              [topics |-> extract_topics(TextOf(call[w].notes), ranking),
               action_items |-> extract_action_items(call[w].notes),
               decisions |-> extract_decisions(call[w].notes),
               attendees |-> extract_attendees(call[w].notes)]]
    /\ pc' = [pc EXCEPT ![w] = "store"]
    /\ UNCHANGED <<driver, graph, call, pos, session, openSessions, sessionOwner,
                   outcome, calls, callId, before, failedStage>>

NextText == CallText(Caller) \/ ExtractText(Caller)

SpecText == InitPar /\ [][NextText]_vars

\* ============================================================ claims on the extractors
\* The call has extracted its record from the text of its notes.
Extracted(w) == pc[w] = "store"

\* The sentences as extract_action_items and extract_decisions read them.
SentenceTexts(w) == {strip(call[w].notes[k].text) : k \in DOMAIN call[w].notes}

Indicators(level) ==
    UNION { {priority_indicators[k].indicators[j] :
                j \in DOMAIN priority_indicators[k].indicators} :
            k \in {k \in DOMAIN priority_indicators :
                      priority_indicators[k].priority = level} }

HasIndicator(sentence, level) ==
    \E kw \in Indicators(level) : Contains(lower(sentence), kw)

\* C11: _determine_priority gives "high" when the case-folded sentence has a
\* keyword of the high set, otherwise "medium" when it has one of the medium
\* set, otherwise "low" when it has one of the low set, otherwise "medium";
\* a sentence with a high and a low keyword is "high".
C11_PriorityCascade ==
    Extracted(Caller) =>
        \A sentence \in SentenceTexts(Caller) :
            determine_priority(sentence) =
                IF HasIndicator(sentence, "high") THEN "high"
                ELSE IF HasIndicator(sentence, "medium") THEN "medium"
                ELSE IF HasIndicator(sentence, "low") THEN "low"
                ELSE "medium"

\* A sentence with a high and a low keyword has been classified, and one
\* with a low keyword only.
C11_Witness ==
    /\ Extracted(Caller)
    /\ \E sentence \in SentenceTexts(Caller) :
          /\ HasIndicator(sentence, "high")
          /\ HasIndicator(sentence, "low")
          /\ determine_priority(sentence) = "high"
    /\ \E item \in {extracted[Caller].action_items[k] :
                      k \in DOMAIN extracted[Caller].action_items} :
          item.priority = "low"


\* The sentences of the notes with what the recogniser finds in them.
SentenceRecords(w) == {call[w].notes[k] : k \in DOMAIN call[w].notes}

Items(w) == {extracted[w].action_items[k] : k \in DOMAIN extracted[w].action_items}

\* The positions of the PERSON entities in the recogniser's output.
PersonPositions(ents) == {k \in DOMAIN ents : ents[k].label = "PERSON"}

\* The positions of the sentence where an "assigned to" stands.
AnchorsOf(sentence) ==
    LET l == lower(sentence) IN
    {i \in 1..Len(sentence) : LiteralAt(l, i, "assigned to")}

\* word is the token that follows the "assigned to" at i: after the phrase
\* come an optional colon, white space, and word as a whole run of word
\* characters.
FollowsAnchor(sentence, i, word) ==
    LET j == i + Len("assigned to") IN
    /\ word # ""
    /\ Chars(word) \subseteq WordChar
    /\ \E c \in {0, 1}, f \in j..Len(sentence) :
          /\ c = 1 => At(sentence, j) = ":"
          /\ f >= j + c
          /\ Chars(Slice(sentence, j + c, f)) \subseteq Space
          /\ LiteralAt(sentence, f, word)
          /\ At(sentence, f + Len(word)) \notin WordChar

FollowsAssignedTo(sentence, word) ==
    \E i \in AnchorsOf(sentence) : FollowsAnchor(sentence, i, word)

\* Some "assigned to" of the sentence is followed by a token.
HasAssignedToken(sentence) ==
    \E i \in AnchorsOf(sentence) :
        At(sentence, RunEnd(sentence, Optional(sentence, i + Len("assigned to"), ":"),
                            Space)) \in WordChar

\* C12: _extract_assignee gives the first PERSON entity of the sentence, in
\* the recogniser's order, whenever there is one, whatever an "assigned to"
\* anchor names; without a PERSON entity the token after "assigned to";
\* with neither, none.
C12_AssigneeResolution ==
    Extracted(Caller) =>
        \A sent \in SentenceRecords(Caller) :
            LET sentence == strip(sent.text)
                assignee == extract_assignee(sentence, sent.ents)
                persons == PersonPositions(sent.ents)
            IN  IF persons # {}
                  THEN assignee = sent.ents[SetMin(persons)].text
                  ELSE IF HasAssignedToken(sentence)
                         THEN FollowsAssignedTo(sentence, assignee)
                         ELSE assignee = None

\* A sentence with a PERSON entity and an anchor that names someone else
\* gave an item assigned to the entity, and a sentence without entities one
\* assigned to the token of its anchor.
C12_Witness ==
    /\ Extracted(Caller)
    /\ \E sent \in SentenceRecords(Caller) :
          /\ PersonPositions(sent.ents) # {}
          /\ FollowsAssignedTo(strip(sent.text), "Dave")
          /\ sent.ents[SetMin(PersonPositions(sent.ents))].text = "Alice"
          /\ \E item \in Items(Caller) :
                item.assignee = "Alice" /\ item.description = "Dave"
    /\ \E sent \in SentenceRecords(Caller) :
          /\ PersonPositions(sent.ents) = {}
          /\ FollowsAssignedTo(strip(sent.text), "Carol")
          /\ \E item \in Items(Caller) : item.assignee = "Carol"


\* The matches of a family of patterns in one sentence whose capture is not
\* empty once stripped: <<pattern, match>> pairs.
Captures(patterns, sentence) ==
    UNION { {<<p, j>> : j \in {j \in DOMAIN Groups(patterns[p], sentence) :
                                  strip(Groups(patterns[p], sentence)[j]) # ""}} :
            p \in DOMAIN patterns }

\* The same over the sentences of the notes: <<sentence, pattern, match>>.
CapturesIn(patterns, w) ==
    UNION { {<<k>> \o c : c \in Captures(patterns, strip(call[w].notes[k].text))} :
            k \in DOMAIN call[w].notes }

CaptureText(patterns, w, c) ==
    strip(Groups(patterns[c[2]], strip(call[w].notes[c[1]].text))[c[3]])

Decisions(w) == {extracted[w].decisions[k] : k \in DOMAIN extracted[w].decisions}

\* C13: every capture of an action anchor that is not empty gives an entry
\* of action_items and every such capture of a decision anchor an entry of
\* decisions, whatever the other family matches in the same sentence; an
\* empty capture gives no entry.
C13_FamiliesIndependent ==
    Extracted(Caller) =>
        /\ \A c \in CapturesIn(action_patterns, Caller) :
              \E item \in Items(Caller) :
                  item.description = CaptureText(action_patterns, Caller, c)
        /\ \A c \in CapturesIn(decision_patterns, Caller) :
              CaptureText(decision_patterns, Caller, c) \in Decisions(Caller)
        /\ Len(extracted[Caller].action_items)
              = Cardinality(CapturesIn(action_patterns, Caller))
        /\ Len(extracted[Caller].decisions)
              = Cardinality(CapturesIn(decision_patterns, Caller))

\* One sentence gave an action item and a decision, and another sentence,
\* whose decision anchor captures nothing, gave no entry.
C13_Witness ==
    /\ Extracted(Caller)
    /\ \E k \in DOMAIN call[Caller].notes :
          /\ Captures(action_patterns, strip(call[Caller].notes[k].text)) # {}
          /\ Captures(decision_patterns, strip(call[Caller].notes[k].text)) # {}
    /\ \E k \in DOMAIN call[Caller].notes :
          /\ Groups("decision", strip(call[Caller].notes[k].text)) = <<"">>
          /\ Captures(decision_patterns, strip(call[Caller].notes[k].text)) = {}
    /\ Len(extracted[Caller].action_items) = 1
    /\ Len(extracted[Caller].decisions) = 1


\* The item comes from this sentence: its description is one of the
\* sentence's action captures.
ItemOfSentence(item, sent) ==
    \E c \in Captures(action_patterns, strip(sent.text)) :
        item.description = strip(Groups(action_patterns[c[1]], strip(sent.text))[c[2]])

\* C14: every item of extract_action_items has a description that is not
\* empty, status "pending", and the priority and the assignee of its whole
\* sentence; a sentence of the verb pattern that begins with a recognised
\* person and has no "assigned to" gives an item assigned to that person.
C14_ItemFields ==
    Extracted(Caller) =>
        /\ \A item \in Items(Caller) :
              /\ item.description # ""
              /\ item.status = "pending"
              /\ \E sent \in SentenceRecords(Caller) :
                    /\ ItemOfSentence(item, sent)
                    /\ item.priority = determine_priority(strip(sent.text))
                    /\ item.assignee = extract_assignee(strip(sent.text), sent.ents)
        /\ \A sent \in SentenceRecords(Caller) :
              /\ Groups("verb", strip(sent.text)) # <<>>
              /\ PersonPositions(sent.ents) # {}
              /\ AnchorsOf(strip(sent.text)) = {}
              => \E item \in Items(Caller) :
                    /\ ItemOfSentence(item, sent)
                    /\ item.assignee = sent.ents[SetMin(PersonPositions(sent.ents))].text
                    /\ item.priority =
                          (IF \E level \in {"high", "medium", "low"} :
                                  HasIndicator(strip(sent.text), level)
                             THEN determine_priority(strip(sent.text))
                             ELSE "medium")

\* "Bob will implement the cache" alone gave one item: assignee Bob,
\* priority medium, status pending.
C14_Witness ==
    /\ Extracted(Caller)
    /\ SentenceTexts(Caller) = {"Bob will implement the cache"}
    /\ Len(extracted[Caller].action_items) = 1
    /\ extracted[Caller].action_items[1].assignee = "Bob"
    /\ extracted[Caller].action_items[1].priority = "medium"
    /\ extracted[Caller].action_items[1].status = "pending"


\* The cues of an explicit attendee list, colon included.
ListCues == {"attendee:", "attendees:", "participant:", "participants:", "present:"}

HasAttendeeList(text) == \E cue \in ListCues : Contains(lower(text), cue)

PersonsOf(ents) == {ents[k].text : k \in PersonPositions(ents)}

\* C15: when the notes have no explicit attendee-list line, every entry of
\* extract_attendees is a person the recogniser finds in the notes; none
\* comes from the capture of an anchor pattern.
C15_FallbackOnlyPersons ==
    Extracted(Caller) /\ ~HasAttendeeList(TextOf(call[Caller].notes)) =>
        \A k \in DOMAIN extracted[Caller].attendees :
            extracted[Caller].attendees[k].name \in PersonsOf(DocEnts(call[Caller].notes))


\* Where the token of a name is followed by an address: <<i, j>> with the
\* token at i and an e-mail-shaped token at j, after it; with sameLine, no
\* line break lies between the two.
EmailMatches(tok, text, sameLine) ==
    LET l == lower(text)
        toks == {i \in 1..Len(text) : LiteralAt(l, i, lower(tok))}
        mails == {j \in 1..Len(text) : EmailEndAt(text, j) # 0}
    IN  {m \in toks \X mails :
            /\ m[2] >= m[1] + Len(tok)
            /\ sameLine => "\n" \notin Chars(Slice(text, m[1] + Len(tok), m[2]))}

\* The address of the first match: the leftmost token, then the nearest
\* address; none without a match or without a token.
FirstEmail(name, text, sameLine) ==
    LET ms == EmailMatches(FirstToken(name), text, sameLine) IN
    IF FirstToken(name) = "" \/ ms = {} THEN None
    ELSE LET m == CHOOSE m \in ms : \A n \in ms : PairLeq(m, n)
         IN  Slice(text, m[2], EmailEndAt(text, m[2]))

\* The names _extract_email is called with, and two names without a token.
EmailNames(w) ==
    {extracted[w].attendees[k].name : k \in DOMAIN extracted[w].attendees}
        \cup PersonsOf(DocEnts(call[w].notes)) \cup {"", " "}

\* C16 as stated: _extract_email gives the first address that follows the
\* first token of the name anywhere later in the notes, line breaks between
\* them included, and none when no address follows the token or the name
\* has no token.
C16_EmailAnywhereAfter ==
    Extracted(Caller) =>
        /\ \A name \in EmailNames(Caller) :
              extract_email(name, TextOf(call[Caller].notes))
                  = FirstEmail(name, TextOf(call[Caller].notes), FALSE)
        /\ \A k \in DOMAIN extracted[Caller].attendees :
              extracted[Caller].attendees[k].email
                  = FirstEmail(extracted[Caller].attendees[k].name,
                               TextOf(call[Caller].notes), FALSE)

\* C16, amended: _extract_email gives the first address that follows the
\* first token of the name on the same line, at any distance within the
\* line and across the sentences that share it; none when no address
\* follows an occurrence of the token on its line or the name has no token.
C16_EmailOnSameLine ==
    Extracted(Caller) =>
        /\ \A name \in EmailNames(Caller) :
              extract_email(name, TextOf(call[Caller].notes))
                  = FirstEmail(name, TextOf(call[Caller].notes), TRUE)
        /\ \A k \in DOMAIN extracted[Caller].attendees :
              extracted[Caller].attendees[k].email
                  = FirstEmail(extracted[Caller].attendees[k].name,
                               TextOf(call[Caller].notes), TRUE)

\* Bob, named in one sentence, got the address of the next sentence of the
\* same line.
C16_Witness ==
    /\ Extracted(Caller)
    /\ Len(call[Caller].notes) = 2
    /\ call[Caller].notes[1].sep = " "
    /\ ~Contains(call[Caller].notes[1].text, "@")
    /\ Contains(call[Caller].notes[1].text, "Bob")
    /\ [name |-> "Bob", email |-> "alice@example.com"]
          \in {extracted[Caller].attendees[k] : k \in DOMAIN extracted[Caller].attendees}


RECURSIVE StoreUntil(_, _, _, _, _)
StoreUntil(g, c, rec, p, q) ==
    IF p = q \/ p = EndPos THEN g
    ELSE StoreUntil(IF RunsStatement(rec, p) THEN Statement(g, c, rec, p) ELSE g,
                    c, rec, Advance(rec, p), q)

\* The call ended by a statement that failed.
FailedInStore(w) ==
    /\ pc[w] = "idle"
    /\ outcome[w].kind = "raised"
    /\ outcome[w].exception.raised_by = "session.run"

NonEmptyTopics(rec) == {rec.topics[i] : i \in {i \in 1..Len(rec.topics) : Truthy(rec.topics[i])}}

\* C18: the statements of a call run in the order Meeting, topics, action
\* items, decisions, attendees; when one fails the call ends with the error
\* as its outcome, the graph holds exactly what the statements before it
\* wrote, and no later statement has run.
C18_FixedOrderNoCompensation ==
    callId[Caller] # 0 =>
        LET b == before[Caller].graph
            rec == extracted[Caller]
            m == Cardinality(WithTitle(graph, call[Caller].title))
        IN  /\ (pc[Caller] = "run" \/ FailedInStore(Caller)) =>
                  graph = StoreUntil(b, call[Caller], rec, MeetingPos, pos[Caller])
            /\ FailedInStore(Caller) =>
                  /\ pos[Caller] # EndPos
                  /\ pos[Caller] # MeetingPos => NewMeetings # {}
                  /\ b.meetings \subseteq graph.meetings
                  /\ b.edges \subseteq graph.edges
            /\ Returned(Caller) => pos[Caller] = EndPos
            /\ graph # b => NewMeetings # {}
            /\ (NewItems # {} \/ NewDecisions # {}) =>
                  \A name \in NonEmptyTopics(rec) :
                      \E e \in NewEdges, t \in graph.topics :
                          e.kind = "DISCUSSES" /\ e.dst = t.id /\ t.name = name
            /\ NewDecisions # {} =>
                  Cardinality(NewItems) = Cardinality(CompleteItems(rec)) * m
            /\ (\E e \in NewEdges : e.kind = "HAS_ATTENDEE") =>
                  Cardinality(NewDecisions) = Cardinality(NonEmptyDecisions(rec)) * m

\* The decision statement of a call failed after the call had written its
\* Meeting and an action item.
C18_Witness ==
    /\ FailedInStore(Caller)
    /\ pos[Caller].phase = 3
    /\ NewMeetings # {}
    /\ NewItems # {}
    /\ NewDecisions = {}


\* The caller's statement at a position of the given phase commits in this
\* step.
Commits(phase) ==
    /\ pc[Caller] = "run"
    /\ pc'[Caller] = "run"
    /\ pos[Caller].phase = phase
    /\ pos'[Caller] # pos[Caller]
    /\ RunsStatement(extracted[Caller], pos[Caller])

PersonsNamed(g, name) == {p \in g.persons : p.name = name}

\* C19: the attendee statement of an attendee with an email sets the email
\* of the Person of that name to it, whatever it was; the attendee statement
\* of an attendee without email and the assignee merge of the action-item
\* statement leave every existing Person, its email included, as it was, and
\* a Person they create has no email.
C19_EmailOverwrite ==
    [][ /\ Commits(4) =>
             LET attendee == Entry(extracted[Caller], pos[Caller]) IN
             IF attendee.email # None
               THEN /\ PersonsNamed(graph', attendee.name) # {}
                    /\ \A p \in PersonsNamed(graph', attendee.name) :
                          p.email = attendee.email
                    /\ \A p \in graph.persons :
                          p.name # attendee.name => p \in graph'.persons
               ELSE /\ graph.persons \subseteq graph'.persons
                    /\ \A p \in graph'.persons \ graph.persons : p.email = None
        /\ Commits(2) =>
             /\ graph.persons \subseteq graph'.persons
             /\ \A p \in graph'.persons \ graph.persons : p.email = None
      ]_vars

\* A Person that had an email when the call started has another one now,
\* and the call is past an attendee that carries it.
C19_Witness ==
    /\ pc[Caller] = "run"
    /\ \E p \in before[Caller].graph.persons, q \in graph.persons,
          k \in DOMAIN extracted[Caller].attendees :
          /\ p.name = q.name
          /\ p.email # None
          /\ q.email # None
          /\ q.email # p.email
          /\ extracted[Caller].attendees[k] = [name |-> q.name, email |-> q.email]


\* The text is what is left of the sentence after some position past its
\* beginning, stripped: a span that trails something in the sentence.
TrailingSpan(text, sentence) ==
    \E j \in 2..(Len(sentence) + 1) :
        text = strip(Slice(sentence, j, Len(sentence) + 1))

\* C20: the description of every item of extract_action_items is the text
\* that trails the matched anchor in its sentence, for each of the four
\* action patterns, the verb pattern included.
C20_DescriptionTrailsAnchor ==
    Extracted(Caller) =>
        \A item \in Items(Caller) :
            \E sent \in SentenceRecords(Caller) :
                /\ ItemOfSentence(item, sent)
                /\ TrailingSpan(item.description, strip(sent.text))


\* ============================================================ readers
\* The queries of MeetingAnalytics that read decisions, on the graph that
\* ingestion writes.

\* n.key of Cypher: null when the node has no such property.
Property(node, key) == IF key \in DOMAIN node THEN node[key] ELSE None

\* The number of days from 1970-01-01 to a date of the proleptic Gregorian
\* calendar.
DaysFromCivil(year, month, day) ==
    LET y == IF month <= 2 THEN year - 1 ELSE year
        era == y \div 400
        yoe == y - era * 400
        mp == (month + 9) % 12
        doy == (153 * mp + 2) \div 5 + day - 1
        doe == yoe * 365 + yoe \div 4 - yoe \div 100 + doy
    IN  era * 146097 + doe - 719468

\* A datetime as seconds since 1970-01-01T00:00:00.
Seconds(ts) ==
    ((DaysFromCivil(ts.year, ts.month, ts.day) * 24 + ts.hour) * 60 + ts.minute) * 60
        + ts.second

SecondsPerDay == 24 * 60 * 60

\* m.timestamp >= datetime() - duration({days: $days}), now being what
\* datetime() gives when the query runs.
InWindow(m, now, days) == Seconds(m.timestamp) >= Seconds(now) - days * SecondsPerDay

\* The nodes of a set that an edge of the kind links from src.
Linked(g, src, kind, nodes) ==
    {n \in nodes : \E e \in g.edges : e.kind = kind /\ e.src = src.id /\ e.dst = n.id}

\* What ingestion writes for one Meeting: (m)-[:MADE_DECISION]->(d) and
\* d.content.
DecisionsWritten(g, m) ==
    {Property(d, "content") : d \in Linked(g, m, "MADE_DECISION", g.decisions)}

\* (m)-[:HAS_DECISION]->(d:Decision) and d.description, as both readers
\* write them: the values read for one Meeting, null included.
DecisionsRead(g, m) ==
    {Property(d, "description") : d \in Linked(g, m, "HAS_DECISION", g.decisions)}

\* generate_progress_report(days): count(DISTINCT m); collect(DISTINCT ...)
\* leaves the nulls out.
generate_progress_report(g, now, days) ==
    LET ms == {m \in g.meetings : InWindow(m, now, days)} IN
    [total_meetings |-> Cardinality(ms),
     topics |-> {t.name : t \in UNION {Linked(g, m, "DISCUSSES", g.topics) : m \in ms}},
     decisions |-> UNION {DecisionsRead(g, m) : m \in ms} \ {None}]

\* track_decision_implementation: one row for each Meeting and each value
\* read for it; ingestion writes no RESULTS_IN edge and no impact_level.
track_decision_implementation(g) ==
    UNION { {[meeting |-> m.title, decision |-> d, impact |-> None] :
                 d \in DecisionsRead(g, m)} : m \in g.meetings }

\* When the readers run: a fortnight and two months after the meetings.
Nows == {datetime(<<2025, 2, 15, 9, 0, 0>>), datetime(<<2025, 4, 1, 9, 0, 0>>)}
DefaultDays == 30

\* The Decision nodes this call linked to a Meeting.
PersistedDecisions(m) ==
    {d \in NewDecisions :
        \E e \in NewEdges : e.src = m.id /\ e.dst = d.id}

\* C21: every Decision that a returned call persisted for a Meeting is in
\* the decisions of generate_progress_report whenever the Meeting is inside
\* the report's window, and is a row of track_decision_implementation.
C21_ReadersFindDecisions ==
    Returned(Caller) =>
        \A m \in graph.meetings : \A d \in PersistedDecisions(m) :
            /\ \A now \in Nows :
                  InWindow(m, now, DefaultDays) =>
                      d.content \in generate_progress_report(graph, now, DefaultDays).decisions
            /\ \E row \in track_decision_implementation(graph) :
                  row.meeting = m.title /\ row.decision = d.content

====
